---- MODULE Spec2Model ----
(***************************************************************************)
(* A model of the SQL-Handlers convenience layer: SQLPyodbcHandler and its *)
(* subclasses SQLAlchemyHandler, SQLDatabase and AccessDatabase.           *)
(*                                                                         *)
(* The program is single threaded: a client constructs one handle and then *)
(* calls query, execute, iter_execute and bulk_insert on it.  Each call is *)
(* one action that runs the whole method; what the database driver does    *)
(* with a statement (succeed, fail, return a result set) is an input of    *)
(* the call.  The database is one store of committed entries; a connection *)
(* holds pending work that a commit adds to the store and a rollback       *)
(* discards, which is what `with conn:` does on a normal and on an         *)
(* exceptional exit of a pyodbc connection opened with autocommit off.     *)
(***************************************************************************)
EXTENDS Integers, Sequences, FiniteSets, Bags, TLC

VARIABLES pc, handle, committed, before, call, ret

vars == <<pc, handle, committed, before, call, ret>>

\* ---------------------------------------------------------------- bounds

\* Most rows of a data frame handed to bulk_insert.
MaxRows == 2

\* Most parameter tuples of a values list handed to iter_execute.
MaxValues == 3

\* A mutating call is started only while the store holds at most this many
\* entries (the store is unbounded in the program).
MaxPrior == 1

\* ------------------------------------------------------------ data frames

\* A cell is a string: "None" is Python's None, "NaN" is float('nan'), ""
\* is the empty string; the others are ordinary values.
isna(cell) == cell \in {"None", "NaN"}

\* The frame's columns, in order, and their pandas dtypes.
columns == <<"name", "qty">>

dtype(col) == IF col = "name" THEN "object" ELSE "float64"

\* The cells a column of the given dtype holds in an input frame.
CellsOf(col) == IF dtype(col) = "object" THEN {"a", "None"} ELSE {"1", "NaN"}

\* A data frame is a sequence of rows; a row carries its index label (which
\* row selection keeps and values.tolist() drops) and one cell per column.
FramesOfLen(n) ==
    { [i \in 1..n |-> [index |-> i, name |-> f[i][1], qty |-> f[i][2]]] :
        f \in [1..n -> CellsOf("name") \X CellsOf("qty")] }

DataFrames == UNION { FramesOfLen(n) : n \in 0..MaxRows }

EmptyFrame == << >>

HasNull(row) == \E k \in 1..Len(columns) : isna(row[columns[k]])

\* df.dropna(): the rows with no null in any column.
dropna(df) == SelectSeq(df, LAMBDA row : ~HasNull(row))

\* column.fillna(''): every null of the column becomes the empty string.
fillna(df, col) ==
    [i \in 1..Len(df) |-> IF isna(df[i][col]) THEN [df[i] EXCEPT ![col] = ""] ELSE df[i]]

\* df.astype(object).where(pd.notnull(df), None): every null becomes None.
WhereNotnullNone(df) ==
    [i \in 1..Len(df) |->
        [index |-> df[i].index,
         name |-> IF isna(df[i].name) THEN "None" ELSE df[i].name,
         qty |-> IF isna(df[i].qty) THEN "None" ELSE df[i].qty]]

\* column.astype(str): the text of each cell (None -> 'None', nan -> 'nan').
astype_str(df, col) ==
    [i \in 1..Len(df) |->
        [df[i] EXCEPT ![col] = IF df[i][col] = "NaN" THEN "nan" ELSE df[i][col]]]

\* df[col] = None: the whole column is set to None.
SetColumnNone(df, col) == [i \in 1..Len(df) |-> [df[i] EXCEPT ![col] = "None"]]

\* df.values.tolist(): the rows as lists of cells, the index dropped.
values_tolist(df) == [i \in 1..Len(df) |-> <<df[i].name, df[i].qty>>]

\* --------------------------------------------------------------- database

\* The store is a bag of entries <<table, name, qty>>.  A connection's
\* uncommitted work is a record: whether it cleared the store, and the
\* entries it added.
Entry(tbl, r) == <<tbl, r[1], r[2]>>

RECURSIVE SeqToBag(_)
SeqToBag(s) == IF s = << >> THEN EmptyBag ELSE SetToBag({Head(s)}) (+) SeqToBag(Tail(s))

Entries(tbl, rows) == SeqToBag([i \in 1..Len(rows) |-> Entry(tbl, rows[i])])

NoWork == [clear |-> FALSE, add |-> EmptyBag]

Then(tx, more) == [clear |-> tx.clear \/ more.clear,
                   add |-> (IF more.clear THEN EmptyBag ELSE tx.add) (+) more.add]

\* conn.commit(), and the exit of `with conn:` without an exception.
Commit(db, tx) == (IF tx.clear THEN EmptyBag ELSE db) (+) tx.add

\* The exit of `with conn:` with an exception: the pending work is lost.
Rollback(db, tx) == db

\* The statements a client hands to query and execute: a SELECT, a DELETE of
\* every row, and a DELETE ... OUTPUT deleted.* (which changes the store and
\* returns a result set).
Statements == {"select", "delete", "delete_output"}

returns_rows(stmt) == stmt \in {"select", "delete_output"}

StatementWork(stmt) ==
    IF stmt = "select" THEN NoWork ELSE [clear |-> TRUE, add |-> EmptyBag]

\* The parameterized statements a client hands to iter_execute: one without
\* a parameter marker, a single INSERT INTO t VALUES (?, ?), and a batch
\* INSERT INTO log VALUES (?, ?); INSERT INTO t VALUES (?, ?).
IterStatements == {"noparam", "single", "batch"}

\* '?' in parameterized_sql_statement
has_marker(sql) == sql # "noparam"

\* What the driver does with one execution: "ok", "fail" (nothing of the
\* statement is left pending), or, for a batch, "partial": its first
\* statement ran and its second failed, so the first one's work is pending.
RowOutcomes(sql) == IF sql = "batch" THEN {"ok", "fail", "partial"} ELSE {"ok", "fail"}

RowWork(sql, row, outcome) ==
    [clear |-> FALSE,
     add |-> IF outcome = "fail" THEN EmptyBag
             ELSE IF sql = "batch" /\ outcome = "partial" THEN SetToBag({Entry("log", row)})
             ELSE IF sql = "batch" THEN SetToBag({Entry("log", row)}) (+) SetToBag({Entry("t", row)})
             ELSE SetToBag({Entry("t", row)})]

\* The i-th parameter tuple of a values list: two tuples, alternating.
IterRow(i) == IF i % 2 = 1 THEN <<"a", "1">> ELSE <<"b", "2">>

\* The values list of n tuples.
ValuesOfLen(n) == [i \in 1..n |-> IterRow(i)]

\* ---------------------------------------------------------------- results

\* What a call did: its result ("None", "rows", or the exception raised),
\* the store after it, the connections it opened, what it sent to the
\* database in order, and the frames it handed to _insert_values.
NoOp(result, db) ==
    [result |-> result, committed |-> db, conns |-> 0, executed |-> << >>, passes |-> << >>]

Ran(result, db, executed) ==
    [result |-> result, committed |-> db, conns |-> 1, executed |-> executed, passes |-> << >>]

\* ---------------------------------------------------------------- handles

Classes == {"SQLPyodbcHandler", "SQLAlchemyHandler", "SQLDatabase", "AccessDatabase"}

\* A handle is its class and its read_only attribute ("undefined" when no
\* constructor assigned it).  The connection string it stores only selects
\* the database, and the model has one database.
NoHandle == [cls |-> "-", read_only |-> "undefined"]

\* SQLPyodbcHandler.__init__, inherited by SQLAlchemyHandler and SQLDatabase.
SQLPyodbcHandler_init(cls, read_only) == [cls |-> cls, read_only |-> read_only]

\* AccessDatabase.__init__ sets its own fields and does not call the base
\* constructor: read_only is never assigned.
AccessDatabase_init == [cls |-> "AccessDatabase", read_only |-> "undefined"]

\* The default of read_only in SQLDatabase.prod / qa / dev / local.
default_read_only(env) == IF env = "prod" THEN "True" ELSE "False"

Environments == {"prod", "qa", "dev", "local"}

\* Variant of allow_method that does not test the flag's value.
allow_method_unguarded(h, db, inner) ==
    IF h.read_only = "undefined" THEN NoOp("AttributeError", db) ELSE inner

\* The decorator: a read-only handle's call prints and returns None; reading
\* a flag that was never assigned raises AttributeError.
allow_method(h, db, inner) ==
    IF h.read_only = "undefined" THEN NoOp("AttributeError", db)
    ELSE IF h.read_only = "True" THEN NoOp("None", db)
    ELSE inner

\* ------------------------------------------------------------------ query

\* pd.read_sql(stmt, conn) inside `with conn:`: the statement runs; a failed
\* statement, or one that returns no result set, raises and the exit rolls
\* back; otherwise the frame is returned and the exit commits.
pd_read_sql(db, a) ==
    IF a.fails \/ ~returns_rows(a.stmt)
    THEN Ran("Error", Rollback(db, StatementWork(a.stmt)), <<a.stmt>>)
    ELSE Ran("rows", Commit(db, StatementWork(a.stmt)), <<a.stmt>>)

\* conn.cursor().execute(stmt, parameters).fetchall() inside `with conn:`.
execute_fetchall(db, a) ==
    IF a.fails \/ ~returns_rows(a.stmt)
    THEN Ran("Error", Rollback(db, StatementWork(a.stmt)), <<a.stmt>>)
    ELSE Ran("rows", Commit(db, StatementWork(a.stmt)), <<a.stmt>>)

\* SQLPyodbcHandler.query is not decorated: it runs on every handle.  Called
\* without its required statement it raises TypeError.
SQLPyodbcHandler_query(h, db, a) ==
    IF ~a.withArgs THEN NoOp("TypeError", db)
    ELSE IF a.pandas_dataframe THEN pd_read_sql(db, a)
    ELSE execute_fetchall(db, a)

\* SQLAlchemyHandler.query(self): pass.  It takes no argument.
SQLAlchemyHandler_query(h, db, a) ==
    IF a.withArgs THEN NoOp("TypeError", db) ELSE NoOp("None", db)

query(h, db, a) ==
    IF h.cls = "SQLAlchemyHandler" THEN SQLAlchemyHandler_query(h, db, a)
    ELSE SQLPyodbcHandler_query(h, db, a)

\* ---------------------------------------------------------------- execute

\* The body of SQLPyodbcHandler.execute: one statement inside `with conn:`.
execute_body(db, a) ==
    IF ~a.withArgs THEN NoOp("TypeError", db)
    ELSE IF a.fails THEN Ran("Error", Rollback(db, StatementWork(a.stmt)), <<a.stmt>>)
    ELSE Ran("None", Commit(db, StatementWork(a.stmt)), <<a.stmt>>)

SQLPyodbcHandler_execute(h, db, a) == allow_method(h, db, execute_body(db, a))

\* SQLAlchemyHandler.execute(self): pass.  Not decorated, no argument.
SQLAlchemyHandler_execute(h, db, a) ==
    IF a.withArgs THEN NoOp("TypeError", db) ELSE NoOp("None", db)

execute(h, db, a) ==
    IF h.cls = "SQLAlchemyHandler" THEN SQLAlchemyHandler_execute(h, db, a)
    ELSE SQLPyodbcHandler_execute(h, db, a)

\* ----------------------------------------------------------- iter_execute

\* The index of the first execution that does not succeed, 0 if all do.
FirstFailure(outcomes) ==
    IF \E i \in 1..Len(outcomes) : outcomes[i] # "ok"
    THEN CHOOSE i \in 1..Len(outcomes) :
            /\ outcomes[i] # "ok"
            /\ \A j \in 1..(i - 1) : outcomes[j] = "ok"
    ELSE 0

RECURSIVE WorkOf(_, _, _, _)
\* The pending work of executing rows 1..n in one transaction.
WorkOf(sql, values, outcomes, n) ==
    IF n = 0 THEN NoWork
    ELSE Then(WorkOf(sql, values, outcomes, n - 1), RowWork(sql, values[n], outcomes[n]))

\* Variant of raise_loop on a connection that commits each statement as it
\* runs (autocommit on): the rows before the failing one stay committed.
raise_loop_autocommit(db, a) ==
    LET k == FirstFailure(a.outcomes) IN
    IF k = 0
    THEN Ran("None", Commit(db, WorkOf(a.sql, a.values, a.outcomes, Len(a.values))), a.values)
    ELSE Ran("Error", Commit(db, WorkOf(a.sql, a.values, a.outcomes, k - 1)), SubSeq(a.values, 1, k))

\* error_handling == 'raise': every row in one `with conn:`; the first
\* failure leaves the loop and the block with the exception.
raise_loop(db, a) ==
    LET k == FirstFailure(a.outcomes) IN
    IF k = 0
    THEN Ran("None", Commit(db, WorkOf(a.sql, a.values, a.outcomes, Len(a.values))), a.values)
    ELSE Ran("Error", Rollback(db, WorkOf(a.sql, a.values, a.outcomes, k)), SubSeq(a.values, 1, k))

RECURSIVE ignore_rows(_, _, _, _, _)
\* error_handling == 'ignore', rows i.. of the loop: a failed execution is
\* printed and the loop goes on (no rollback); a successful one is followed
\* by c.commit(), which commits everything pending on the connection.  The
\* result is <<store, pending>> after the last row.
ignore_rows(db, pending, a, i, n) ==
    IF i > n THEN <<db, pending>>
    ELSE LET tx == Then(pending, RowWork(a.sql, a.values[i], a.outcomes[i])) IN
         IF a.outcomes[i] = "ok"
         THEN ignore_rows(Commit(db, tx), NoWork, a, i + 1, n)
         ELSE ignore_rows(db, tx, a, i + 1, n)

\* The 'ignore' branch: the loop, then the exit of `with conn:`, which
\* commits what is still pending.
ignore_loop(db, a) ==
    LET end == ignore_rows(db, NoWork, a, 1, Len(a.values)) IN
    Ran("None", Commit(end[1], end[2]), a.values)

\* The body of SQLPyodbcHandler.iter_execute.  The connection is opened
\* before error_handling is looked at.
iter_execute_body(db, a) ==
    IF ~a.withArgs THEN NoOp("TypeError", db)
    ELSE IF ~has_marker(a.sql) THEN NoOp("ValueError", db)
    ELSE IF a.error_handling = "raise" THEN raise_loop(db, a)
    ELSE IF a.error_handling = "ignore" THEN ignore_loop(db, a)
    ELSE Ran("TypeError", db, << >>)

SQLPyodbcHandler_iter_execute(h, db, a) == allow_method(h, db, iter_execute_body(db, a))

\* SQLAlchemyHandler.iter_execute(self): pass.  Not decorated, no argument.
SQLAlchemyHandler_iter_execute(h, db, a) ==
    IF a.withArgs THEN NoOp("TypeError", db) ELSE NoOp("None", db)

iter_execute(h, db, a) ==
    IF h.cls = "SQLAlchemyHandler" THEN SQLAlchemyHandler_iter_execute(h, db, a)
    ELSE SQLPyodbcHandler_iter_execute(h, db, a)

\* ------------------------------------------------------------ bulk_insert

\* Variant of _separate_nulls whose first part is not filtered.
separate_nulls_unfiltered(df, column) ==
    LET nulls == SelectSeq(df, LAMBDA row : isna(row[column]))
    IN <<df, SetColumnNone(astype_str(nulls, column), column)>>

\* SQLPyodbcHandler._separate_nulls: <<values, nulls>>, the rows whose
\* column is not null, and the rows whose column is null with that column
\* turned to text and then set to None.
SQLPyodbcHandler_separate_nulls(df, column) ==
    LET values == SelectSeq(df, LAMBDA row : ~isna(row[column]))
        nulls == SelectSeq(df, LAMBDA row : isna(row[column]))
    IN <<values, SetColumnNone(astype_str(nulls, column), column)>>

\* SQLAlchemyHandler._separate_nulls calls the base method.
SQLAlchemyHandler_separate_nulls(df, column) == SQLPyodbcHandler_separate_nulls(df, column)

separate_nulls(h, df, column) ==
    IF h.cls = "SQLAlchemyHandler" THEN SQLAlchemyHandler_separate_nulls(df, column)
    ELSE SQLPyodbcHandler_separate_nulls(df, column)

\* The body of SQLPyodbcHandler._insert_values, continuing the call whose
\* progress is st: a frame with no row issues nothing; otherwise a new
\* connection runs one executemany and commits, or fails and rolls back.
insert_values_body(df, o, st) ==
    LET values == values_tolist(df)
        tx == [clear |-> FALSE, add |-> Entries("t", values)]
    IN IF Len(values) > 0
       THEN [result |-> IF o = "ok" THEN "None" ELSE "Error",
             committed |-> IF o = "ok" THEN Commit(st.committed, tx) ELSE Rollback(st.committed, tx),
             conns |-> st.conns + 1,
             executed |-> Append(st.executed, values),
             passes |-> Append(st.passes, df)]
       ELSE [st EXCEPT !.passes = Append(@, df)]

SQLPyodbcHandler_insert_values(h, df, o, st) ==
    allow_method(h, st.committed, insert_values_body(df, o, st))

\* SQLAlchemyHandler._insert_values: df.to_sql(..., if_exists='append'), not
\* decorated.  The engine's write-table runs for every frame, also one with
\* no row, in a transaction of its own, and writes every null as NULL.
SQLAlchemyHandler_insert_values(h, df, o, st) ==
    LET values == values_tolist(WhereNotnullNone(df))
        tx == [clear |-> FALSE, add |-> Entries("t", values)]
    IN [result |-> IF o = "ok" THEN "None" ELSE "Error",
        committed |-> IF o = "ok" THEN Commit(st.committed, tx) ELSE Rollback(st.committed, tx),
        conns |-> st.conns + 1,
        executed |-> Append(st.executed, values),
        passes |-> Append(st.passes, df)]

insert_values(h, df, o, st) ==
    IF h.cls = "SQLAlchemyHandler" THEN SQLAlchemyHandler_insert_values(h, df, o, st)
    ELSE SQLPyodbcHandler_insert_values(h, df, o, st)

RECURSIVE fill_all_columns(_, _)
\* Variant of fill_object_columns that does not look at the dtype.
fill_all_columns(df, k) ==
    IF k > Len(columns) THEN df ELSE fill_all_columns(fillna(df, columns[k]), k + 1)

RECURSIVE fill_object_columns(_, _)
\* for col in df.columns: if df[col].dtype == 'object': fillna('')
fill_object_columns(df, k) ==
    IF k > Len(columns) THEN df
    ELSE fill_object_columns(
            IF dtype(columns[k]) = "object" THEN fillna(df, columns[k]) ELSE df, k + 1)

\* remove_nulls: df.dropna(inplace=True)
remove_nulls_step(a) == IF a.remove_nulls THEN dropna(a.df) ELSE a.df

\* handle_nulls == '*'
handle_all_nulls(h, db, a) ==
    insert_values(h, WhereNotnullNone(fill_object_columns(remove_nulls_step(a), 1)),
                  a.outcomes[1], NoOp("None", db))

\* Variant of handle_column_nulls with both inserts in one transaction: a
\* failure of the second undoes the first.
handle_column_nulls_one_transaction(h, db, a) ==
    LET parts == separate_nulls(h, remove_nulls_step(a), a.handle_nulls)
        first == insert_values(h, parts[1], a.outcomes[1], NoOp("None", db))
        second == insert_values(h, parts[2], a.outcomes[2], first)
    IN IF first.result # "None" THEN first
       ELSE IF second.result # "None" THEN [second EXCEPT !.committed = db]
       ELSE second

\* handle_nulls names a column: two calls of _insert_values, the second only
\* when the first returned.
handle_column_nulls(h, db, a) ==
    LET parts == separate_nulls(h, remove_nulls_step(a), a.handle_nulls)
        first == insert_values(h, parts[1], a.outcomes[1], NoOp("None", db))
    IN IF first.result # "None" THEN first
       ELSE insert_values(h, parts[2], a.outcomes[2], first)

\* handle_nulls is None
handle_no_nulls(h, db, a) ==
    insert_values(h, remove_nulls_step(a), a.outcomes[1], NoOp("None", db))

\* The body of SQLPyodbcHandler.bulk_insert.
bulk_insert_body(h, db, a) ==
    IF ~a.withArgs THEN NoOp("TypeError", db)
    ELSE IF a.handle_nulls = "*" THEN handle_all_nulls(h, db, a)
    ELSE IF a.handle_nulls # "None" THEN handle_column_nulls(h, db, a)
    ELSE handle_no_nulls(h, db, a)

SQLPyodbcHandler_bulk_insert(h, db, a) == allow_method(h, db, bulk_insert_body(h, db, a))

\* Variant of SQLAlchemyHandler.bulk_insert that writes the frame as given,
\* without the base method's null policy.
alchemy_bulk_insert_direct(h, db, a) ==
    allow_method(h, db, IF ~a.withArgs THEN NoOp("TypeError", db)
                        ELSE insert_values(h, a.df, a.outcomes[1], NoOp("None", db)))

\* SQLAlchemyHandler.bulk_insert: super().bulk_insert(df, table_name, **kwargs)
SQLAlchemyHandler_bulk_insert(h, db, a) == SQLPyodbcHandler_bulk_insert(h, db, a)

bulk_insert(h, db, a) ==
    IF h.cls = "SQLAlchemyHandler" THEN SQLAlchemyHandler_bulk_insert(h, db, a)
    ELSE SQLPyodbcHandler_bulk_insert(h, db, a)

\* ---------------------------------------------------------------- inputs

NoCall ==
    [op |-> "-", withArgs |-> FALSE, stmt |-> "-", pandas_dataframe |-> FALSE, fails |-> FALSE,
     sql |-> "-", values |-> << >>, outcomes |-> << >>, error_handling |-> "-",
     df |-> EmptyFrame, remove_nulls |-> FALSE, handle_nulls |-> "None"]

NoRet == NoOp("-", EmptyBag)

\* A call without the arguments its signature names.
Bare(op) == [NoCall EXCEPT !.op = op]

QueryCalls ==
    {Bare("query")} \cup
    { [NoCall EXCEPT !.op = "query", !.withArgs = TRUE, !.stmt = s,
                     !.pandas_dataframe = p, !.fails = f] :
        s \in Statements, p \in BOOLEAN, f \in BOOLEAN }

ExecuteCalls ==
    {Bare("execute")} \cup
    { [NoCall EXCEPT !.op = "execute", !.withArgs = TRUE, !.stmt = s, !.fails = f] :
        s \in Statements, f \in BOOLEAN }

ErrorHandlings == {"raise", "ignore", "continue"}

IterCallsOfLen(n) ==
    UNION { { [NoCall EXCEPT !.op = "iter_execute", !.withArgs = TRUE, !.sql = q,
                             !.values = ValuesOfLen(n), !.outcomes = o,
                             !.error_handling = e] :
                o \in [1..n -> RowOutcomes(q)], e \in ErrorHandlings }
            : q \in IterStatements }

IterCalls == {Bare("iter_execute")} \cup UNION { IterCallsOfLen(n) : n \in 0..MaxValues }

HandleNulls == {"None", "*", "name", "qty"}

\* What the driver does with the first and the second insert of a call; only
\* a call that names a column issues a second one.
InsertOutcomes(hn) ==
    IF hn \in {"None", "*"} THEN {<<"ok", "ok">>, <<"fail", "ok">>}
    ELSE [1..2 -> {"ok", "fail"}]

BulkCalls ==
    {Bare("bulk_insert")} \cup
    UNION { { [NoCall EXCEPT !.op = "bulk_insert", !.withArgs = TRUE, !.df = d,
                             !.remove_nulls = r, !.handle_nulls = hn, !.outcomes = o] :
                d \in DataFrames, r \in BOOLEAN, o \in InsertOutcomes(hn) }
            : hn \in HandleNulls }

\* The stores the database may hold when the handle is constructed.
InitialStores == {EmptyBag, SetToBag({<<"t", "a", "1">>})}

\* ---------------------------------------------------------------- actions

Init ==
    /\ pc = "new"
    /\ handle = NoHandle
    /\ committed \in InitialStores
    /\ before = EmptyBag
    /\ call = NoCall
    /\ ret = NoRet

Constructed(h) ==
    /\ handle' = h
    /\ pc' = "idle"
    /\ UNCHANGED <<committed, before, call, ret>>

\* SQLPyodbcHandler(connection_string, read_only)
NewSQLPyodbcHandler ==
    /\ pc = "new"
    /\ \E ro \in {"True", "False"} : Constructed(SQLPyodbcHandler_init("SQLPyodbcHandler", ro))

\* SQLAlchemyHandler(connection_string, read_only)
NewSQLAlchemyHandler ==
    /\ pc = "new"
    /\ \E ro \in {"True", "False"} : Constructed(SQLPyodbcHandler_init("SQLAlchemyHandler", ro))

\* SQLDatabase.prod(), .qa(), .dev(), .local(), with or without read_only
NewSQLDatabase ==
    /\ pc = "new"
    /\ \E env \in Environments, ro \in {"default", "True", "False"} :
          Constructed(SQLPyodbcHandler_init("SQLDatabase",
                          IF ro = "default" THEN default_read_only(env) ELSE ro))

\* AccessDatabase(directory, filename, password)
NewAccessDatabase ==
    /\ pc = "new"
    /\ Constructed(AccessDatabase_init)

Done(a, out) ==
    /\ before' = committed
    /\ call' = a
    /\ ret' = out
    /\ committed' = out.committed
    /\ pc' = "done"
    /\ UNCHANGED handle

HasRoom == BagCardinality(committed) <= MaxPrior

CallQuery ==
    /\ pc = "idle"
    /\ \E a \in QueryCalls : Done(a, query(handle, committed, a))

CallExecute ==
    /\ pc = "idle"
    /\ \E a \in ExecuteCalls : Done(a, execute(handle, committed, a))

CallIterExecute ==
    /\ pc = "idle"
    /\ HasRoom
    /\ \E a \in IterCalls : Done(a, iter_execute(handle, committed, a))

CallBulkInsert ==
    /\ pc = "idle"
    /\ HasRoom
    /\ \E a \in BulkCalls : Done(a, bulk_insert(handle, committed, a))

\* The caller takes the result (or the exception) and goes on.
Return ==
    /\ pc = "done"
    /\ pc' = "idle"
    /\ before' = EmptyBag
    /\ call' = NoCall
    /\ ret' = NoRet
    /\ UNCHANGED <<handle, committed>>

Next ==
    \/ NewSQLPyodbcHandler
    \/ NewSQLAlchemyHandler
    \/ NewSQLDatabase
    \/ NewAccessDatabase
    \/ CallQuery
    \/ CallExecute
    \/ CallIterExecute
    \/ CallBulkInsert
    \/ Return

Spec == Init /\ [][Next]_vars

\* ----------------------------------------------------------------- claims

\* The classes whose execute, iter_execute and bulk_insert are the base
\* handler's own.
BaseClasses == {"SQLPyodbcHandler", "SQLDatabase"}

Guarded == {"execute", "iter_execute", "bulk_insert"}

AtDone(op) == pc = "done" /\ call.op = op

WritableBase == handle.cls \in BaseClasses /\ handle.read_only = "False"

RECURSIVE Concat(_)
Concat(seqs) == IF seqs = << >> THEN << >> ELSE Head(seqs) \o Concat(Tail(seqs))

\* The rows the call sent to the database, over all its inserts.
Sent == Concat(ret.executed)

NoNullRow(row) == ~isna(row.name) /\ ~isna(row.qty)

C2_RaiseAllOrNothing ==
    (AtDone("iter_execute") /\ WritableBase /\ call.withArgs /\ has_marker(call.sql)
        /\ call.error_handling = "raise") =>
        IF \E i \in 1..Len(call.outcomes) : call.outcomes[i] # "ok"
        THEN /\ ret.result = "Error"
             /\ committed = before
             /\ \E k \in 1..Len(call.values) :
                    /\ call.outcomes[k] # "ok"
                    /\ \A j \in 1..(k - 1) : call.outcomes[j] = "ok"
                    /\ ret.executed = SubSeq(call.values, 1, k)
        ELSE /\ ret.result = "None"
             /\ ret.executed = call.values
             /\ committed = before (+) Entries("t", call.values)
                    (+) (IF call.sql = "batch" THEN Entries("log", call.values) ELSE EmptyBag)

C2_Witness ==
    /\ AtDone("iter_execute")
    /\ WritableBase
    /\ call.error_handling = "raise"
    /\ call.sql = "single"
    /\ call.outcomes = <<"ok", "fail", "ok">>
    /\ before # EmptyBag
    /\ ret.result = "Error"
    /\ Len(ret.executed) = 2

\* The entries of the rows of a values list whose execution succeeded.
RECURSIVE SucceededEntries(_, _, _, _)
SucceededEntries(sql, values, outcomes, n) ==
    IF n = 0 THEN EmptyBag
    ELSE SucceededEntries(sql, values, outcomes, n - 1) (+)
         (IF outcomes[n] = "ok"
          THEN Entries("t", <<values[n]>>)
                 (+) (IF sql = "batch" THEN Entries("log", <<values[n]>>) ELSE EmptyBag)
          ELSE EmptyBag)

\* C3: iter_execute with error_handling='ignore' on a writable handle
\* attempts every row in order, returns without raising, and on return the
\* committed rows are exactly those of the rows whose statement succeeded:
\* nothing of a failed row is committed.
C3_IgnoreCommitsExactlySucceeded ==
    (AtDone("iter_execute") /\ WritableBase /\ call.withArgs /\ has_marker(call.sql)
        /\ call.error_handling = "ignore") =>
        /\ ret.result = "None"
        /\ ret.executed = call.values
        /\ committed = before (+)
              SucceededEntries(call.sql, call.values, call.outcomes, Len(call.values))

\* The same for the statements whose failure leaves nothing pending (a
\* single INSERT): there the statement of C3 holds.
IgnoreSingleStatement ==
    (AtDone("iter_execute") /\ WritableBase /\ call.withArgs /\ call.sql = "single"
        /\ call.error_handling = "ignore") =>
        /\ ret.result = "None"
        /\ ret.executed = call.values
        /\ committed = before (+)
              SucceededEntries(call.sql, call.values, call.outcomes, Len(call.values))

\* The row of frame df with index label x.
RowAt(df, x) == df[CHOOSE i \in 1..Len(df) : df[i].index = x]

Indexes(df) == { df[i].index : i \in 1..Len(df) }

OtherColumn(c) == IF c = "name" THEN "qty" ELSE "name"

NonEmpty(seqs) == SelectSeq(seqs, LAMBDA x : x # << >>)

\* C4: bulk_insert with handle_nulls naming a column (and remove_nulls not
\* set), on a writable handle: the first frame handed to the insert holds
\* input rows, unchanged, whose column is not null; when the call returns,
\* a second frame was handed over too, the two frames' index labels are
\* disjoint and together are the input's, each label occurring once, every
\* row of the second frame has None in the column and its other column as in
\* the input row it came from (whose column was null); an empty frame issues
\* no insert, the inserts are issued in that order, and the store gains
\* exactly the rows of the two frames.
C4_SplitByNullColumn ==
    (AtDone("bulk_insert") /\ WritableBase /\ call.withArgs /\ ~call.remove_nulls
        /\ call.handle_nulls \in {"name", "qty"}) =>
        LET c == call.handle_nulls
            P == ret.passes
        IN /\ Len(P) >= 1
           /\ \A i \in 1..Len(P[1]) :
                 /\ P[1][i] = RowAt(call.df, P[1][i].index)
                 /\ ~isna(P[1][i][c])
           /\ ret.executed = NonEmpty([k \in 1..Len(P) |-> values_tolist(P[k])])
           /\ ret.result = "None" =>
                 /\ Len(P) = 2
                 /\ Indexes(P[1]) \cap Indexes(P[2]) = {}
                 /\ Indexes(P[1]) \cup Indexes(P[2]) = Indexes(call.df)
                 /\ Len(P[1]) + Len(P[2]) = Len(call.df)
                 /\ \A i \in 1..Len(P[2]) :
                       LET src == RowAt(call.df, P[2][i].index) IN
                       /\ isna(src[c])
                       /\ P[2][i][c] = "None"
                       /\ P[2][i][OtherColumn(c)] = src[OtherColumn(c)]
                 /\ committed = before (+) Entries("t", values_tolist(P[1]))
                                       (+) Entries("t", values_tolist(P[2]))

C4_Witness ==
    /\ AtDone("bulk_insert")
    /\ WritableBase
    /\ ~call.remove_nulls
    /\ call.handle_nulls = "qty"
    /\ ret.result = "None"
    /\ Len(ret.passes) = 2
    /\ Len(ret.passes[1]) = 1
    /\ Len(ret.passes[2]) = 1
    /\ ret.passes[2][1].name = "a"
    /\ Len(ret.executed) = 2

\* The row bulk_insert sends for an input row under handle_nulls='*'.
StarRow(row) ==
    <<IF isna(row.name) THEN "" ELSE row.name, IF isna(row.qty) THEN "None" ELSE row.qty>>

\* C5: bulk_insert's null policy on a writable handle.  With no policy the
\* rows are sent as given, in one insert.  With remove_nulls, whatever
\* handle_nulls is, the rows sent are exactly the input rows with no null in
\* any column.  With handle_nulls='*' (and remove_nulls not set) one row is
\* sent per input row, a null of the text column as the empty string and a
\* null of the other column as NULL.  When the call returns, the store has
\* gained exactly the rows sent.
C5_NullPolicy ==
    (AtDone("bulk_insert") /\ WritableBase /\ call.withArgs) =>
        LET clean == SelectSeq(call.df, NoNullRow) IN
        /\ (~call.remove_nulls /\ call.handle_nulls = "None") =>
              /\ Sent = values_tolist(call.df)
              /\ Len(ret.executed) <= 1
        /\ call.remove_nulls => Sent = values_tolist(clean)
        /\ (~call.remove_nulls /\ call.handle_nulls = "*") =>
              /\ Sent = [i \in 1..Len(call.df) |-> StarRow(call.df[i])]
              /\ Len(ret.executed) <= 1
        /\ ret.result = "None" => committed = before (+) Entries("t", Sent)

C5_Witness ==
    /\ AtDone("bulk_insert")
    /\ WritableBase
    /\ ~call.remove_nulls
    /\ call.handle_nulls = "*"
    /\ ret.result = "None"
    /\ \E i \in 1..Len(call.df) : call.df[i].name = "None" /\ call.df[i].qty = "NaN"
    /\ \E i \in 1..Len(call.df) : call.df[i].name = "a"
    /\ <<"", "None">> \in { Sent[i] : i \in 1..Len(Sent) }

\* C6: query never changes the store: on every handle, for every statement
\* and both result forms, whether it returns or raises.
C6_QueryNeverMutates == AtDone("query") => committed = before

\* The outcome the base handler gives the same call on a handle with the
\* same read_only flag and the same store.
BaseOutcome ==
    LET h == [handle EXCEPT !.cls = "SQLPyodbcHandler"] IN
    IF call.op = "query" THEN SQLPyodbcHandler_query(h, before, call)
    ELSE IF call.op = "execute" THEN SQLPyodbcHandler_execute(h, before, call)
    ELSE IF call.op = "iter_execute" THEN SQLPyodbcHandler_iter_execute(h, before, call)
    ELSE SQLPyodbcHandler_bulk_insert(h, before, call)

BaseFrames ==
    SQLPyodbcHandler_bulk_insert([cls |-> "SQLPyodbcHandler", read_only |-> "False"], before,
                                 [call EXCEPT !.outcomes = <<"ok", "ok">>]).passes

\* A row as the engine writes it: every null as NULL.
NullsAsNone(r) ==
    <<IF isna(r[1]) THEN "None" ELSE r[1], IF isna(r[2]) THEN "None" ELSE r[2]>>

IsPrefix(s, t) == Len(s) <= Len(t) /\ s = SubSeq(t, 1, Len(s))

C8_ContinueIgnoresFailures ==
    (AtDone("iter_execute") /\ WritableBase /\ call.withArgs /\ has_marker(call.sql)
        /\ call.error_handling = "continue"
        /\ \E i \in 1..Len(call.outcomes) : call.outcomes[i] # "ok") =>
        /\ ret.result = "None"
        /\ ret.executed = call.values

\* C9: every handle the repository constructs has read_only defined, so a
\* guarded call is either run or suppressed and never fails in the guard.
C9_GuardNeverFails ==
    (pc = "done" /\ call.op \in Guarded /\ call.withArgs) =>
        /\ handle.read_only \in {"True", "False"}
        /\ ret.result # "AttributeError"

\* The rows of the call's frame, after remove_nulls, whose named column is
\* not null, and those whose named column is null.
NamedInput == IF call.remove_nulls THEN SelectSeq(call.df, NoNullRow) ELSE call.df

NotNullPart == SelectSeq(NamedInput, LAMBDA row : ~isna(row[call.handle_nulls]))

NullPart == SelectSeq(NamedInput, LAMBDA row : isna(row[call.handle_nulls]))

NullPartAsNone ==
    [i \in 1..Len(NullPart) |-> [NullPart[i] EXCEPT ![call.handle_nulls] = "None"]]

\* C10: bulk_insert with handle_nulls naming a column, on a writable handle,
\* runs each insert it issues on a connection of its own and commits it on
\* its own.  When the first insert (the rows with a value in the column)
\* fails, the error reaches the caller, no second insert is issued and the
\* store is as before.  When the second insert (the rows with a null in the
\* column) fails, the error reaches the caller, the rows of the first insert
\* are committed and none of the second is.  When both return, the rows of
\* both are committed.
C10_TwoTransactions ==
    (AtDone("bulk_insert") /\ WritableBase /\ call.withArgs
        /\ call.handle_nulls \in {"name", "qty"}) =>
        /\ ret.conns = Len(ret.executed)
        /\ (NotNullPart # << >> /\ call.outcomes[1] = "fail") =>
              /\ ret.result = "Error"
              /\ Len(ret.executed) = 1
              /\ committed = before
        /\ ((NotNullPart = << >> \/ call.outcomes[1] = "ok")
               /\ NullPart # << >> /\ call.outcomes[2] = "fail") =>
              /\ ret.result = "Error"
              /\ committed = before (+) Entries("t", values_tolist(NotNullPart))
        /\ ret.result = "None" =>
              committed = before (+) Entries("t", values_tolist(NotNullPart))
                                 (+) Entries("t", values_tolist(NullPartAsNone))

C10_Witness ==
    /\ AtDone("bulk_insert")
    /\ WritableBase
    /\ call.handle_nulls = "qty"
    /\ call.outcomes = <<"ok", "fail">>
    /\ ret.result = "Error"
    /\ ret.conns = 2
    /\ committed # before
    /\ before # EmptyBag

====
